---- MODULE Spec2Model ----
(***************************************************************************)
(* Model of src/inventory_system.py: the process-wide ledger STOCK_DATA    *)
(* (a Python dict, which iterates in insertion order), the operations      *)
(* add_item, remove_item, get_qty, check_low_items, load_data, save_data,  *)
(* and the JSON file those last two read and write.                        *)
(*                                                                         *)
(* Every operation is one atomic step (the program is single-threaded).    *)
(* The variables call, pre and ret record the last call, the ledger just   *)
(* before it and what it returned, so that the outcome of a call can be    *)
(* stated as a state predicate.                                            *)
(***************************************************************************)
EXTENDS Integers, Sequences, FiniteSets, TLC

VARIABLES STOCK_DATA, file, call, pre, ret, added, saved

vars == <<STOCK_DATA, file, call, pre, ret, added, saved>>

(***************************************************************************)
(* Bounds                                                                  *)
(***************************************************************************)
\* largest quantity an add_item call may bring an item to
MaxStock == 3
\* largest integer qty argument tried
MaxQty == 2

\* threshold default of check_low_items
DefaultThreshold == 5

\* item names tried as valid names
Names == {"apple", "banana"}

(***************************************************************************)
(* Python values passed as arguments.                                      *)
(* An item argument is a str, an int or None; a qty argument is an int, a  *)
(* bool (a subclass of int in Python: True == 1), a float or a str.        *)
(***************************************************************************)
StrItem(s) == [kind |-> "str", s |-> s]
IntItem == [kind |-> "int", s |-> "123"]
NoneItem == [kind |-> "none", s |-> ""]

Items == {StrItem(s) : s \in Names \cup {""}} \cup {IntItem, NoneItem}

IntQty(n) == [kind |-> "int", n |-> n]
BoolQty == [kind |-> "bool", n |-> 1]
FloatQty == [kind |-> "float", n |-> 1]
StrQty == [kind |-> "str", n |-> 2]

Qtys == {IntQty(n) : n \in -1..MaxQty} \cup {BoolQty, FloatQty, StrQty}

Thresholds == (-1)..(MaxStock + 1) \cup {DefaultThreshold}

\* isinstance(item, str)
IsStr(item) == item.kind = "str"
\* truthiness of an item argument: "" and None are falsy, 123 is truthy
Truthy(item) == item.kind = "int" \/ (item.kind = "str" /\ item.s # "")
\* isinstance(qty, int)
IsInt(qty) == qty.kind \in {"int", "bool"}

(***************************************************************************)
(* The dict: a sequence of [item, qty] entries with distinct keys, in      *)
(* insertion order.                                                        *)
(***************************************************************************)
Entry(k, v) == [item |-> k, qty |-> v]

DictKeys(d) == {d[i].item : i \in 1..Len(d)}

\* key in d
DictContains(d, k) == \E i \in 1..Len(d) : d[i].item = k

\* d.get(k, default)
DictGet(d, k, default) ==
    IF DictContains(d, k)
    THEN (CHOOSE e \in {d[i] : i \in 1..Len(d)} : e.item = k).qty
    ELSE default

\* d[k] = v : an existing key keeps its position, a new key goes last
DictSet(d, k, v) ==
    IF DictContains(d, k)
    THEN [i \in 1..Len(d) |-> IF d[i].item = k THEN Entry(k, v) ELSE d[i]]
    ELSE Append(d, Entry(k, v))

\* del d[k]
DictDel(d, k) == SelectSeq(d, LAMBDA e : e.item # k)

\* the ledger as a mapping, order forgotten
AsMapping(d) == {<<d[i].item, d[i].qty>> : i \in 1..Len(d)}

(***************************************************************************)
(* Return values                                                           *)
(***************************************************************************)
RetNone == [kind |-> "none", b |-> FALSE, n |-> 0, l |-> <<>>]
RetBool(b) == [kind |-> "bool", b |-> b, n |-> 0, l |-> <<>>]
RetInt(n) == [kind |-> "int", b |-> FALSE, n |-> n, l |-> <<>>]
RetList(l) == [kind |-> "list", b |-> FALSE, n |-> 0, l |-> l]
Raised == [kind |-> "raise", b |-> FALSE, n |-> 0, l |-> <<>>]

NoQty == [kind |-> "none", n |-> 0]
Call(op, item, qty, threshold) ==
    [op |-> op, item |-> item, qty |-> qty, threshold |-> threshold]

\* ghost for add-only runs: while on, sum[name] is the total qty of the valid
\* add_item calls made for name since the start; any remove, load, save or
\* outside step turns it off for good
ZeroAdded == [on |-> TRUE, sum |-> [s \in Names |-> 0]]
Untracked == [on |-> FALSE, sum |-> [s \in Names |-> 0]]
NotSaved == [valid |-> FALSE, data |-> <<>>]

(***************************************************************************)
(* JSON text: a sequence of tokens.  Whitespace (indent=2) is left out.    *)
(***************************************************************************)
Tok(t) == [t |-> t, s |-> "", neg |-> FALSE, digits |-> <<>>]
StrTok(s) == [t |-> "str", s |-> s, neg |-> FALSE, digits |-> <<>>]
NumTok(neg, digits) == [t |-> "num", s |-> "", neg |-> neg, digits |-> digits]

RECURSIVE Digits(_)
\* decimal digits of a natural number, most significant first
Digits(n) == IF n < 10 THEN <<n>> ELSE Append(Digits(n \div 10), n % 10)

\* the number token json.dump writes for an int
FormatInt(n) == IF n < 0 THEN NumTok(TRUE, Digits(-n)) ELSE NumTok(FALSE, Digits(n))

RECURSIVE DigitsValue(_)
DigitsValue(ds) ==
    IF Len(ds) = 0 THEN 0
    ELSE 10 * DigitsValue(SubSeq(ds, 1, Len(ds) - 1)) + ds[Len(ds)]

\* a JSON number has at least one digit and no leading zero
WellFormedNum(tok) ==
    /\ Len(tok.digits) >= 1
    /\ (Len(tok.digits) > 1 => tok.digits[1] # 0)

\* the int json.load makes of a number token
ParseInt(tok) == IF tok.neg THEN -DigitsValue(tok.digits) ELSE DigitsValue(tok.digits)

RECURSIVE DumpMembers(_, _)
DumpMembers(d, i) ==
    IF i > Len(d) THEN <<>>
    ELSE (IF i > 1 THEN <<Tok(",")>> ELSE <<>>)
         \o <<StrTok(d[i].item), Tok(":"), FormatInt(d[i].qty)>>
         \o DumpMembers(d, i + 1)

\* a dump that leaves out the items whose quantity is 0
JsonDump_SkipZero(d) ==
    <<Tok("{")>> \o DumpMembers(SelectSeq(d, LAMBDA e : e.qty # 0), 1) \o <<Tok("}")>>

\* json.dump(STOCK_DATA, f, indent=2)
JsonDump(d) == <<Tok("{")>> \o DumpMembers(d, 1) \o <<Tok("}")>>

ParseFail == [ok |-> FALSE, obj |-> <<>>]

RECURSIVE ParseMembers(_, _, _)
\* members of an object from token i on: key ':' number, then ',' or '}'
ParseMembers(text, i, d) ==
    IF i + 3 > Len(text) THEN ParseFail
    ELSE IF text[i].t # "str" \/ text[i + 1].t # ":" \/ text[i + 2].t # "num"
    THEN ParseFail
    ELSE IF ~WellFormedNum(text[i + 2]) THEN ParseFail
    ELSE LET d2 == DictSet(d, text[i].s, ParseInt(text[i + 2]))
         IN IF text[i + 3].t = ","
            THEN ParseMembers(text, i + 4, d2)
            ELSE IF text[i + 3].t = "}" /\ i + 3 = Len(text)
            THEN [ok |-> TRUE, obj |-> d2]
            ELSE ParseFail

\* json.load(f) of a document whose top level is an object of integers;
\* ok = FALSE stands for json.JSONDecodeError
JsonLoad(text) ==
    IF Len(text) < 2 \/ text[1].t # "{" THEN ParseFail
    ELSE IF text[2].t = "}"
    THEN (IF Len(text) = 2 THEN [ok |-> TRUE, obj |-> <<>>] ELSE ParseFail)
    ELSE ParseMembers(text, 2, <<>>)

(***************************************************************************)
(* The file at the path handed to load_data and save_data.                 *)
(*   missing     no such file                                              *)
(*   unreadable  exists, but open() or read() fails with an OSError other  *)
(*               than FileNotFoundError (permission denied, a directory)   *)
(*               or the bytes are not UTF-8                                *)
(*   text        readable text                                             *)
(***************************************************************************)
Missing == [kind |-> "missing", text |-> <<>>]
Unreadable == [kind |-> "unreadable", text |-> <<>>]
Text(t) == [kind |-> "text", text |-> t]

\* files put in place from outside the program
ExternalFiles ==
    { Missing, Unreadable,
      Text(<<>>),
      Text(<<Tok("{"), StrTok("kiwi"), Tok(":"), NumTok(FALSE, <<1, 0>>), Tok("}")>>),
      Text(<<Tok("{"), StrTok("apple"), Tok(":"), NumTok(FALSE, <<1>>), Tok(","),
             StrTok("apple"), Tok(":"), NumTok(TRUE, <<2>>), Tok("}")>>),
      Text(<<Tok("{"), StrTok("apple"), Tok(":"), NumTok(FALSE, <<0, 1>>), Tok("}")>>) }

(***************************************************************************)
(* Initial state: STOCK_DATA = {} at import, no file yet                   *)
(***************************************************************************)
Init ==
    /\ STOCK_DATA = <<>>
    /\ file = Missing
    /\ call = Call("init", NoneItem, NoQty, 0)
    /\ pre = <<>>
    /\ ret = RetNone
    /\ added = ZeroAdded
    /\ saved = NotSaved

(***************************************************************************)
(* add_item(item, qty)                                                     *)
(***************************************************************************)
\* add_item storing qty in place of the sum
AddItemResult_Overwrite(d, item, qty) ==
    IF ~Truthy(item) \/ ~IsStr(item) THEN d
    ELSE IF ~IsInt(qty) \/ qty.n < 0 THEN d
    ELSE DictSet(d, item.s, qty.n)

\* add_item without the qty < 0 test
AddItemResult_NoSignCheck(d, item, qty) ==
    IF ~Truthy(item) \/ ~IsStr(item) THEN d
    ELSE IF ~IsInt(qty) THEN d
    ELSE DictSet(d, item.s, DictGet(d, item.s, 0) + qty.n)

\* the ledger after add_item(item, qty)
AddItemResult(d, item, qty) ==
    IF ~Truthy(item) \/ ~IsStr(item) THEN d
    ELSE IF ~IsInt(qty) \/ qty.n < 0 THEN d
    ELSE DictSet(d, item.s, DictGet(d, item.s, 0) + qty.n)

\* a valid call in the words of the interface: non-empty string name,
\* integer qty >= 0
ValidAdd(item, qty) ==
    /\ item.kind = "str" /\ item.s # ""
    /\ qty.kind \in {"int", "bool"} /\ qty.n >= 0

add_item(item, qty) ==
    /\ IsStr(item) /\ IsInt(qty) => DictGet(STOCK_DATA, item.s, 0) + qty.n <= MaxStock
    /\ STOCK_DATA' = AddItemResult(STOCK_DATA, item, qty)
    /\ ret' = RetNone
    /\ call' = Call("add_item", item, qty, 0)
    /\ pre' = STOCK_DATA
    /\ added' = IF added.on /\ ValidAdd(item, qty)
                THEN [added EXCEPT !.sum[item.s] = @ + qty.n]
                ELSE added
    /\ saved' = saved
    /\ UNCHANGED file

AddItem == \E item \in Items, qty \in Qtys : add_item(item, qty)

(***************************************************************************)
(* remove_item(item, qty)                                                  *)
(***************************************************************************)
\* item in STOCK_DATA, for an argument of any type
InLedger(d, item) == IsStr(item) /\ DictContains(d, item.s)

\* remove_item deleting only below 0
RemoveItemResult_KeepZero(d, item, qty) ==
    IF ~InLedger(d, item) THEN d
    ELSE IF ~IsInt(qty) \/ qty.n < 0 THEN d
    ELSE LET d2 == DictSet(d, item.s, DictGet(d, item.s, 0) - qty.n)
         IN IF DictGet(d2, item.s, 0) < 0 THEN DictDel(d2, item.s) ELSE d2

\* remove_item refusing a qty above the stock
RemoveItemResult_RejectExcess(d, item, qty) ==
    IF ~InLedger(d, item) THEN d
    ELSE IF ~IsInt(qty) \/ qty.n < 0 \/ qty.n > DictGet(d, item.s, 0) THEN d
    ELSE LET d2 == DictSet(d, item.s, DictGet(d, item.s, 0) - qty.n)
         IN IF DictGet(d2, item.s, 0) <= 0 THEN DictDel(d2, item.s) ELSE d2

\* remove_item without the qty < 0 test
RemoveItemResult_NoSignCheck(d, item, qty) ==
    IF ~InLedger(d, item) THEN d
    ELSE IF ~IsInt(qty) THEN d
    ELSE LET d2 == DictSet(d, item.s, DictGet(d, item.s, 0) - qty.n)
         IN IF DictGet(d2, item.s, 0) <= 0 THEN DictDel(d2, item.s) ELSE d2

RemoveItemResult(d, item, qty) ==
    IF ~InLedger(d, item) THEN d
    ELSE IF ~IsInt(qty) \/ qty.n < 0 THEN d
    ELSE LET d2 == DictSet(d, item.s, DictGet(d, item.s, 0) - qty.n)
         IN IF DictGet(d2, item.s, 0) <= 0 THEN DictDel(d2, item.s) ELSE d2

RemoveItemReturn(d, item, qty) ==
    IF ~InLedger(d, item) THEN FALSE
    ELSE IF ~IsInt(qty) \/ qty.n < 0 THEN FALSE
    ELSE TRUE

remove_item(item, qty) ==
    /\ STOCK_DATA' = RemoveItemResult(STOCK_DATA, item, qty)
    /\ ret' = RetBool(RemoveItemReturn(STOCK_DATA, item, qty))
    /\ call' = Call("remove_item", item, qty, 0)
    /\ pre' = STOCK_DATA
    /\ added' = Untracked
    /\ saved' = saved
    /\ UNCHANGED file

RemoveItem == \E item \in Items, qty \in Qtys : remove_item(item, qty)

(***************************************************************************)
(* get_qty(item)                                                           *)
(***************************************************************************)
GetQtyReturn(d, item) == IF ~InLedger(d, item) THEN 0 ELSE DictGet(d, item.s, 0)

get_qty(item) ==
    /\ ret' = RetInt(GetQtyReturn(STOCK_DATA, item))
    /\ call' = Call("get_qty", item, NoQty, 0)
    /\ pre' = STOCK_DATA
    /\ UNCHANGED <<STOCK_DATA, file, added, saved>>

GetQty == \E item \in Items : get_qty(item)

(***************************************************************************)
(* check_low_items(threshold)                                              *)
(***************************************************************************)
RECURSIVE LowItemsFrom(_, _, _)
\* the loop over STOCK_DATA.items() from entry i on
LowItemsFrom(d, i, threshold) ==
    IF i > Len(d) THEN <<>>
    ELSE (IF d[i].qty < threshold THEN <<d[i].item>> ELSE <<>>)
         \o LowItemsFrom(d, i + 1, threshold)

\* check_low_items comparing with <=
CheckLowItemsReturn_Inclusive(d, threshold) == LowItemsFrom(d, 1, threshold + 1)

CheckLowItemsReturn(d, threshold) == LowItemsFrom(d, 1, threshold)

check_low_items(threshold) ==
    /\ ret' = RetList(CheckLowItemsReturn(STOCK_DATA, threshold))
    /\ call' = Call("check_low_items", NoneItem, NoQty, threshold)
    /\ pre' = STOCK_DATA
    /\ UNCHANGED <<STOCK_DATA, file, added, saved>>

CheckLowItems == \E threshold \in Thresholds : check_low_items(threshold)

(***************************************************************************)
(* load_data(file)                                                         *)
(***************************************************************************)
\* how load_data ends: "raise" is an exception that no except clause of
\* load_data catches
LoadOutcome(f) ==
    IF f.kind = "missing" THEN "not_found"
    ELSE IF f.kind = "unreadable" THEN "raise"
    ELSE IF JsonLoad(f.text).ok THEN "ok"
    ELSE "decode_error"

\* load_data emptying the ledger on a decode error too
LoadDataResult_ResetOnError(d, f) ==
    IF LoadOutcome(f) = "ok" THEN JsonLoad(f.text).obj
    ELSE IF LoadOutcome(f) \in {"not_found", "decode_error"} THEN <<>>
    ELSE d

RECURSIVE MergeInto(_, _, _)
\* d.update(obj) from entry i of obj on
MergeInto(d, obj, i) ==
    IF i > Len(obj) THEN d
    ELSE MergeInto(DictSet(d, obj[i].item, obj[i].qty), obj, i + 1)

\* load_data merging the file into the ledger
LoadDataResult_Merge(d, f) ==
    IF LoadOutcome(f) = "ok" THEN MergeInto(d, JsonLoad(f.text).obj, 1)
    ELSE IF LoadOutcome(f) = "not_found" THEN <<>>
    ELSE d

LoadDataResult(d, f) ==
    IF LoadOutcome(f) = "ok" THEN JsonLoad(f.text).obj
    ELSE IF LoadOutcome(f) = "not_found" THEN <<>>
    ELSE d

LoadDataReturn(f) ==
    IF LoadOutcome(f) = "raise" THEN Raised
    ELSE RetBool(LoadOutcome(f) = "ok")

load_data ==
    /\ STOCK_DATA' = LoadDataResult(STOCK_DATA, file)
    /\ ret' = LoadDataReturn(file)
    /\ call' = Call("load_data", NoneItem, NoQty, 0)
    /\ pre' = STOCK_DATA
    /\ added' = Untracked
    /\ UNCHANGED <<file, saved>>

LoadData == load_data

(***************************************************************************)
(* save_data(file)                                                         *)
(***************************************************************************)
\* what the file system does with the write
SaveOutcomes == {"ok", "open_fails", "write_fails"}

\* what a failed write can leave behind: open(file, "w") has truncated the
\* file and any proper prefix of the document may have reached it
PartialWrites(text) == {SubSeq(text, 1, k) : k \in 0..(Len(text) - 1)}

SaveDataReturn(outcome) == outcome = "ok"

save_data(outcome) ==
    /\ CASE outcome = "ok" ->
             /\ file' = Text(JsonDump(STOCK_DATA))
             /\ saved' = [valid |-> TRUE, data |-> STOCK_DATA]
         [] outcome = "open_fails" ->
             /\ file' = file
             /\ saved' = saved
         [] outcome = "write_fails" ->
             /\ \E t \in PartialWrites(JsonDump(STOCK_DATA)) : file' = Text(t)
             /\ saved' = NotSaved
    /\ ret' = RetBool(SaveDataReturn(outcome))
    /\ call' = Call("save_data", NoneItem, NoQty, 0)
    /\ pre' = STOCK_DATA
    /\ added' = Untracked
    /\ UNCHANGED STOCK_DATA

SaveData == \E outcome \in SaveOutcomes : save_data(outcome)

(***************************************************************************)
(* Steps taken outside the functions of the module                         *)
(***************************************************************************)
\* the caller empties the ledger (STOCK_DATA = {})
ResetLedger ==
    /\ STOCK_DATA' = <<>>
    /\ ret' = RetNone
    /\ call' = Call("reset", NoneItem, NoQty, 0)
    /\ pre' = STOCK_DATA
    /\ added' = Untracked
    /\ UNCHANGED <<file, saved>>

\* the file is replaced, removed or made unreadable from outside
ExternalFile ==
    /\ \E f \in ExternalFiles : file' = f
    /\ file' # file
    /\ saved' = NotSaved
    /\ ret' = RetNone
    /\ call' = Call("external", NoneItem, NoQty, 0)
    /\ pre' = STOCK_DATA
    /\ added' = Untracked
    /\ UNCHANGED STOCK_DATA

\* Calls that pass validation.  The specification with the file draws
\* add_item and remove_item calls from these only: a call that fails
\* validation leaves the ledger as it is (SpecLedger tries those), so no
\* ledger is lost.
ValidItems == {StrItem(s) : s \in Names}
ValidQtys == {IntQty(n) : n \in 0..MaxQty}

AddValid == \E item \in ValidItems, qty \in ValidQtys : add_item(item, qty)

RemoveValid == \E item \in ValidItems, qty \in ValidQtys : remove_item(item, qty)

Next ==
    \/ AddValid
    \/ RemoveValid
    \/ LoadData
    \/ SaveData
    \/ ResetLedger
    \/ ExternalFile

Spec == Init /\ [][Next]_vars

NextLedger == AddItem \/ RemoveItem \/ GetQty \/ CheckLowItems

SpecLedger == Init /\ [][NextLedger]_vars

NextAdd == AddItem \/ GetQty

SpecAdd == Init /\ [][NextAdd]_vars

(***************************************************************************)
(* Properties                                                              *)
(***************************************************************************)
\* the call was remove_item on an item it found, with an integer qty >= 0
RemoveAccepted ==
    /\ call.op = "remove_item"
    /\ InLedger(pre, call.item)
    /\ call.qty.kind \in {"int", "bool"} /\ call.qty.n >= 0

\* C1 (as stated): in every state reached from the empty ledger by add_item
\* and remove_item calls, every quantity stored in the ledger is strictly
\* positive.
C1_StrictlyPositive == \A i \in 1..Len(STOCK_DATA) : STOCK_DATA[i].qty > 0

\* C1 (amended): in every state reached from the empty ledger by add_item
\* and remove_item calls, every quantity stored is >= 0, and the item of an
\* accepted remove_item call is afterwards either absent or strictly positive.
C1_NonNegative ==
    /\ \A i \in 1..Len(STOCK_DATA) : STOCK_DATA[i].qty >= 0
    /\ RemoveAccepted =>
         \A i \in 1..Len(STOCK_DATA) :
            STOCK_DATA[i].item = call.item.s => STOCK_DATA[i].qty > 0

\* an accepted removal has depleted an item while another sits at quantity 0
C1_Witness ==
    /\ RemoveAccepted
    /\ ~DictContains(STOCK_DATA, call.item.s)
    /\ \E i \in 1..Len(STOCK_DATA) : STOCK_DATA[i].qty = 0

\* what get_qty is to return for an argument after an add-only run
ExpectedQty(item) ==
    IF item.kind = "str" /\ item.s \in Names THEN added.sum[item.s] ELSE 0

\* C2: after any sequence of add_item calls from the empty ledger, get_qty of
\* any name is the sum of the qty of the valid add_item calls for that name,
\* and 0 for a name without a valid add.
C2_CumulativeSum ==
    added.on =>
      /\ \A item \in Items : GetQtyReturn(STOCK_DATA, item) = ExpectedQty(item)
      /\ call.op = "get_qty" => ret = RetInt(ExpectedQty(call.item))

\* get_qty has returned a total of 2 or more while another item had stock
C2_Witness ==
    /\ added.on
    /\ call.op = "get_qty"
    /\ call.item = StrItem("apple")
    /\ ret.n = added.sum["apple"]
    /\ ret.n >= 2
    /\ GetQtyReturn(STOCK_DATA, StrItem("banana")) > 0

\* C3: remove_item of a present item with stock s and an integer qty >= 0
\* returns True; the item is deleted if qty >= s and keeps s - qty otherwise;
\* no other item changes.
C3_RemoveAccepted ==
    RemoveAccepted =>
      LET k == call.item.s
          s == DictGet(pre, k, 0)
          q == call.qty.n
      IN /\ ret = RetBool(TRUE)
         /\ q >= s => /\ ~DictContains(STOCK_DATA, k)
                      /\ GetQtyReturn(STOCK_DATA, call.item) = 0
         /\ q < s => /\ DictContains(STOCK_DATA, k)
                     /\ DictGet(STOCK_DATA, k, 0) = s - q
         /\ AsMapping(STOCK_DATA) \ {<<k, DictGet(STOCK_DATA, k, 0)>>}
              = AsMapping(pre) \ {<<k, s>>}

\* more than the stock was removed while another item was in the ledger
C3_Witness ==
    /\ RemoveAccepted
    /\ call.qty.n > DictGet(pre, call.item.s, 0)
    /\ DictGet(pre, call.item.s, 0) > 0
    /\ ret = RetBool(TRUE)
    /\ Len(pre) = 2
    /\ Len(STOCK_DATA) = 1

\* C4: remove_item returns False and leaves the ledger unchanged when the
\* item is absent or qty is negative or not an integer.
C4_RemoveRejected ==
    (/\ call.op = "remove_item"
     /\ \/ ~InLedger(pre, call.item)
        \/ call.qty.kind \notin {"int", "bool"}
        \/ call.qty.n < 0)
    => /\ ret = RetBool(FALSE)
       /\ STOCK_DATA = pre

\* a negative qty was refused for an item in stock
C4_Witness ==
    /\ call.op = "remove_item"
    /\ InLedger(pre, call.item)
    /\ call.qty = IntQty(-1)
    /\ ret = RetBool(FALSE)
    /\ STOCK_DATA = pre

\* C5: add_item with a negative or non-integer qty, or an empty or
\* non-string name, leaves the ledger as it was and returns without raising.
C5_AddRejected ==
    (/\ call.op = "add_item"
     /\ \/ call.item.kind # "str"
        \/ call.item.s = ""
        \/ call.qty.kind \notin {"int", "bool"}
        \/ call.qty.n < 0)
    => /\ STOCK_DATA = pre
       /\ ret = RetNone

\* a negative qty was refused for a valid name on a ledger with stock
C5_Witness ==
    /\ call.op = "add_item"
    /\ call.item = StrItem("apple")
    /\ call.qty = IntQty(-1)
    /\ InLedger(pre, call.item)
    /\ STOCK_DATA = pre

\* C6: load_data of a file that a successful save_data wrote, and that
\* nothing has touched since, returns True and yields the keys and
\* quantities the ledger had at the save, whatever the ledger held in
\* between (the empty ledger included).
C6_RoundTrip ==
    (call.op = "load_data" /\ saved.valid) =>
       /\ ret = RetBool(TRUE)
       /\ AsMapping(STOCK_DATA) = AsMapping(saved.data)

\* a two-item ledger, one item at 0, came back into an emptied ledger
C6_Witness ==
    /\ call.op = "load_data"
    /\ saved.valid
    /\ pre = <<>>
    /\ Len(STOCK_DATA) = 2
    /\ \E i \in 1..2 : STOCK_DATA[i].qty = 0
    /\ \E i \in 1..2 : STOCK_DATA[i].qty > 0

\* C7: load_data of a file that is not valid JSON returns False and leaves
\* the ledger unchanged; load_data of a missing file returns False and
\* leaves the ledger empty.
C7_LoadFailures ==
    call.op = "load_data" =>
       /\ (file.kind = "text" /\ ~JsonLoad(file.text).ok) =>
             (ret = RetBool(FALSE) /\ STOCK_DATA = pre)
       /\ file.kind = "missing" =>
             (ret = RetBool(FALSE) /\ STOCK_DATA = <<>>)

\* a malformed file was refused while the ledger held stock
C7_Witness ==
    /\ call.op = "load_data"
    /\ file.kind = "text"
    /\ Len(file.text) > 0
    /\ ~JsonLoad(file.text).ok
    /\ Len(pre) = 2
    /\ STOCK_DATA = pre

\* position of key k in dict d
Position(d, k) == CHOOSE i \in 1..Len(d) : d[i].item = k

\* C8: check_low_items(threshold) returns exactly the names whose quantity is
\* strictly below threshold, each once, in insertion order, the empty list
\* on an empty ledger, and leaves the ledger unchanged.
C8_CheckLowItems ==
    call.op = "check_low_items" =>
       /\ ret.kind = "list"
       /\ {ret.l[i] : i \in 1..Len(ret.l)}
            = {STOCK_DATA[i].item : i \in {j \in 1..Len(STOCK_DATA) :
                                             STOCK_DATA[j].qty < call.threshold}}
       /\ \A i, j \in 1..Len(ret.l) :
             i < j => Position(STOCK_DATA, ret.l[i]) < Position(STOCK_DATA, ret.l[j])
       /\ STOCK_DATA = <<>> => ret.l = <<>>
       /\ STOCK_DATA = pre

\* the item at the threshold was left out and the one below it returned
C8_Witness ==
    /\ call.op = "check_low_items"
    /\ Len(STOCK_DATA) = 2
    /\ STOCK_DATA[1].item = "banana"
    /\ STOCK_DATA[1].qty = call.threshold
    /\ STOCK_DATA[2].qty < call.threshold
    /\ ret.l = <<"apple">>

\* C9: no public operation raises to its caller: load_data and save_data
\* return a boolean for every outcome of the file system, False on failure.
C9_NeverRaises ==
    /\ ret.kind # "raise"
    /\ (call.op = "load_data" /\ file.kind # "text") => ret = RetBool(FALSE)

RECURSIVE Pow10(_)
Pow10(e) == IF e = 0 THEN 1 ELSE 10 * Pow10(e - 1)

RECURSIVE WeightedSum(_, _)
\* digits 1..i of ds, each weighted by its decimal place
WeightedSum(ds, i) ==
    IF i = 0 THEN 0 ELSE ds[i] * Pow10(Len(ds) - i) + WeightedSum(ds, i - 1)

\* the number a number token denotes
Denotes(tok) ==
    IF tok.neg THEN -WeightedSum(tok.digits, Len(tok.digits))
    ELSE WeightedSum(tok.digits, Len(tok.digits))

\* the object a well-formed document denotes: member j is tokens
\* 4j-2 .. 4j, and of two members with one key the later one counts
FileObject(text) ==
    LET members == 1..((Len(text) - 1) \div 4)
    IN {<<text[4 * j - 2].s, Denotes(text[4 * j])>> :
          j \in {m \in members :
                   \A m2 \in members : m2 > m => text[4 * m2 - 2].s # text[4 * m - 2].s}}

\* C10: after load_data returns True the ledger holds exactly the keys and
\* quantities of the file's JSON object, and every item that was in the
\* ledger before and is not in the file is gone.
C10_LoadReplaces ==
    (call.op = "load_data" /\ ret = RetBool(TRUE)) =>
       /\ AsMapping(STOCK_DATA) = FileObject(file.text)
       /\ \A k \in DictKeys(pre) :
             (\A kv \in FileObject(file.text) : kv[1] # k) =>
                ~DictContains(STOCK_DATA, k)

\* a load from outside replaced a ledger whose items the file does not name
C10_Witness ==
    /\ call.op = "load_data"
    /\ ret = RetBool(TRUE)
    /\ ~saved.valid
    /\ Len(pre) = 2
    /\ DictKeys(pre) \cap DictKeys(STOCK_DATA) = {}
    /\ Len(STOCK_DATA) = 1

====
